---- MODULE Spec2Model ----
(***************************************************************************)
(* Model of src/lib/store.js: class Store, a registry of named observable  *)
(* streams (Rx BehaviorSubject by default) with per-subscriber bookkeeping *)
(* of subscription handles.                                                *)
(*                                                                         *)
(* Every public method is one atomic action.  onValue and filter are user  *)
(* procedures; here they record their invocation in the trace `calls` and  *)
(* return normally (they neither throw nor call back into the store).      *)
(* Subscribers are ordinary objects (no toString of their own), key path   *)
(* segments are plain names without '.' or ','.                            *)
(***************************************************************************)
EXTENDS Integers, Sequences, FiniteSets

\* ------------------------------------------------------------------ bounds
MaxHandles == 2      \* number of subscription handles ever created
MaxConfigs == 2      \* length of a subscriber's config list

\* ------------------------------------------------------------------ inputs
Values == {1, 3}

\* Key paths, as segment sequences: 'a', 'b' and the two-segment ['a','b'].
KeyPaths == {<<"a">>, <<"b">>, <<"a", "b">>}

\* Two distinct subscriber objects.
Subscribers == {"A", "B"}

\* filter "undefined" stands for a config entry without a filter property.
\* An onValue "record" only records the value it is called with.
ConfigEntries ==
  { [observableKey |-> <<"a">>,      filter |-> "undefined", onValue |-> "record"],
    [observableKey |-> <<"a">>,      filter |-> "double",    onValue |-> "record"],
    [observableKey |-> <<"b">>,      filter |-> "identity",  onValue |-> "record"],
    [observableKey |-> <<"a", "b">>, filter |-> "undefined", onValue |-> "record"] }

\* The values subscriber.constructor.subscriptions may hold when read.
ConfigLists == UNION { [1..n -> ConfigEntries] : n \in 0..MaxConfigs }

\* Config entries on 'a' whose onValue calls back into the store or throws.
ReentrantKeyPaths == {<<"a">>}

ReentrantConfigEntries ==
  { [observableKey |-> <<"a">>, filter |-> "undefined", onValue |-> f] :
      f \in {"record", "throw", "unsubscribe", "publish"} }

ReentrantConfigLists ==
  UNION { [1..n -> ReentrantConfigEntries] : n \in 0..MaxConfigs }

\* ------------------------------------------------------------------ values
Undefined == [kind |-> "undefined", id |-> 0]
PlainObject == [kind |-> "object", id |-> 0]
StreamRef(i) == [kind |-> "stream", id |-> i]

Prefix(path, n) == SubSeq(path, 1, n)

\* Every location of the nested _observables object a key path can touch.
Nodes == UNION { { Prefix(p, n) : n \in 1..Len(p) } : p \in KeyPaths }

VARIABLES
  observables,    \* store._observables, flattened: Nodes -> value at that path
  streams,        \* the BehaviorSubjects created by the factory, in creation order
  subscriptions,  \* store._subscriptions: property name -> list of handles
  nextHandle,     \* identity of the next handle observe() returns
  initialized,    \* history: the key paths initialize() has returned normally for
  last,           \* the last public call: arguments and outcome
  calls           \* dispose/filter/onValue invocations made during the last call

vars ==
  <<observables, streams, subscriptions, nextHandle, initialized, last, calls>>

\* ------------------------------------------------- lodash has / set / get
\* has(object, path): every segment along the path is an own property.
has(table, path) ==
  \A n \in 1..Len(path) : table[Prefix(path, n)].kind # "undefined"

\* get(object, path): the value at the path, undefined when a segment is missing.
get(table, path) ==
  IF has(table, path) THEN table[path] ELSE Undefined

\* A set that replaces whatever lies along the path by a fresh plain object.
setOverwritesAlongPath(table, path, value) ==
  [p \in DOMAIN table |->
     IF p = path THEN value
     ELSE IF Len(p) < Len(path) /\ Prefix(path, Len(p)) = p
          THEN PlainObject
          ELSE table[p]]

\* set(object, path, value): missing intermediate segments become plain
\* objects, existing objects along the path (streams too) are kept.
set(table, path, value) ==
  [p \in DOMAIN table |->
     IF p = path THEN value
     ELSE IF Len(p) < Len(path) /\ Prefix(path, Len(p)) = p
             /\ table[p].kind = "undefined"
          THEN PlainObject
          ELSE table[p]]

\* ------------------------------------------------- property access
\* String(['a','b']) = 'a,b': the property name obj[key] uses for a key path.
RECURSIVE ToPropertyKey(_)
ToPropertyKey(key) ==
  IF Len(key) = 1 THEN key[1]
  ELSE key[1] \o "," \o ToPropertyKey(Tail(key))

\* observables(this)[name]: own properties of _observables are first segments.
OwnProperty(table, name) ==
  IF \E p \in DOMAIN table : Len(p) = 1 /\ p[1] = name
  THEN table[<<name>>]
  ELSE Undefined

\* String(subscriber): the property name subscriptions(this)[subscriber] uses.
\* Object.prototype.toString gives the same name for every ordinary object.
SubscriberKey(subscriber) ==
  IF subscriber \in Subscribers THEN "[object Object]" ELSE subscriber

\* ------------------------------------------------- filter and dispatch
passThroughFilter(subscriber, value) == value

\* filter || passThroughFilter
ChooseFilter(filter) ==
  IF filter = "undefined" THEN "passThroughFilter" ELSE filter

\* filter(subscriber, newValue) for the filters of ConfigEntries.
ApplyFilter(filter, subscriber, value) ==
  CASE filter = "passThroughFilter" -> passThroughFilter(subscriber, value)
    [] filter = "identity" -> value
    [] filter = "double" -> 2 * value

Event(kind, o, arg) == [kind |-> kind, id |-> o.id, sub |-> o.sub, arg |-> arg]

\* subscription.dispose(): detach the observer; a second dispose does nothing.
dispose(strs, handle) ==
  [strs EXCEPT ![handle.stream].observers =
     SelectSeq(@, LAMBDA o : o.id # handle.observer.id)]

\* A loop that disposes the first handle of the list only.
DisposeFirstOnly(st, list, i) ==
  IF list = <<>> THEN st
  ELSE [st EXCEPT !.streams = dispose(@, list[1]),
                  !.calls = Append(@, Event("dispose", list[1].observer, 0))]

\* subscriptions(this)[subscriber].forEach(subscription => subscription.dispose())
RECURSIVE DisposeEach(_, _, _)
DisposeEach(st, list, i) ==
  IF i > Len(list) THEN st
  ELSE DisposeEach(
         [st EXCEPT !.streams = dispose(@, list[i]),
                    !.calls = Append(@, Event("dispose", list[i].observer, 0))],
         list, i + 1)

\* ------------------------------------------------- the store's methods
\* A method maps the store's state st to its state on return (or on throw):
\*   [observables, streams, subscriptions, next, calls, error]
\* A call made on a state with an error pending is never reached.

\* A factory that does not seed the subject: new Rx.BehaviorSubject().
behaviorSubjectFactoryUnseeded(key, defaultValue) ==
  [value |-> 0, observers |-> <<>>]

\* new Rx.BehaviorSubject(defaultValue); the key is ignored.
behaviorSubjectFactory(key, defaultValue) ==
  [value |-> defaultValue, observers |-> <<>>]

\* constructor(factory = behaviorSubjectFactory)
constructor ==
  [observables |-> [p \in Nodes |-> Undefined],
   streams |-> <<>>,
   subscriptions |-> [k \in {} |-> <<>>],
   next |-> 1,
   calls |-> <<>>,
   error |-> "none"]

initialize(st, key, defaultValue) ==
  IF has(st.observables, key)
  THEN [st EXCEPT !.error = "Error"]
  ELSE [st EXCEPT
          !.streams = Append(@, behaviorSubjectFactory(key, defaultValue)),
          !.observables = set(@, key, StreamRef(Len(st.streams) + 1))]

isInitialized(st, key) == has(st.observables, key)

\* subscriptions(this)[subscriber] is truthy (a list, empty or not, is).
HasEntry(table, subscriber) == SubscriberKey(subscriber) \in DOMAIN table

\* An unsubscribe that stores an empty handle list for an unknown subscriber
\* and returns normally.
unsubscribeDefaultsMissingEntry(st, subscriber) ==
  LET k == SubscriberKey(subscriber) IN
  IF k \notin DOMAIN st.subscriptions
  THEN [st EXCEPT
          !.subscriptions = [x \in DOMAIN st.subscriptions \cup {k} |->
                               IF x = k THEN <<>> ELSE st.subscriptions[x]]]
  ELSE LET s1 == DisposeEach(st, st.subscriptions[k], 1) IN
       [s1 EXCEPT
          !.subscriptions = [x \in DOMAIN st.subscriptions \ {k} |->
                               st.subscriptions[x]]]

\* An unsubscribe that forgets the handles without disposing them.
unsubscribeDeleteOnly(st, subscriber) ==
  LET k == SubscriberKey(subscriber) IN
  IF k \notin DOMAIN st.subscriptions
  THEN [st EXCEPT !.error = "TypeError"]
  ELSE [st EXCEPT
          !.subscriptions = [x \in DOMAIN st.subscriptions \ {k} |->
                               st.subscriptions[x]]]

unsubscribe(st, subscriber) ==
  LET k == SubscriberKey(subscriber) IN
  IF k \notin DOMAIN st.subscriptions
  THEN [st EXCEPT !.error = "TypeError"]    \* undefined.forEach
  ELSE LET s1 == DisposeEach(st, st.subscriptions[k], 1) IN
       [s1 EXCEPT
          !.subscriptions = [x \in DOMAIN st.subscriptions \ {k} |->
                               st.subscriptions[x]]]

\* ------------------------------------------------- dispatch
RECURSIVE publish(_, _, _)

\* config.onValue(subscriber, value), a procedure the subscriber's class
\* supplies. It records its invocation; on receiving 3 a "throw" procedure
\* throws, an "unsubscribe" procedure calls store.unsubscribe(subscriber) and
\* a "publish" procedure calls store.publish(observableKey, 1).
onValue(st, o, value) ==
  LET s1 == [st EXCEPT !.calls = Append(@, Event("onValue", o, value))] IN
  IF value # 3 \/ o.entry.onValue = "record" THEN s1
  ELSE IF o.entry.onValue = "throw" THEN [s1 EXCEPT !.error = "thrown"]
  ELSE IF o.entry.onValue = "unsubscribe"
    THEN unsubscribe([s1 EXCEPT !.calls = Append(@, Event("unsubscribe", o, 0))],
                     o.sub)
  ELSE publish([s1 EXCEPT !.calls = Append(@, Event("publish", o, 1))],
               o.entry.observableKey, 1)

\* A callback that hands the raw value to onValue after calling the filter.
observeDropsFilterResult(st, o, newValue) ==
  onValue(IF o.filter = "passThroughFilter" THEN st
          ELSE [st EXCEPT !.calls = Append(@, Event("filter", o, newValue))],
          o, newValue)

\* The callback observe() hands to observable.subscribe:
\*   newValue => onValue(subscriber, filter(subscriber, newValue))
\* A user filter records its invocation.
observe(st, o, newValue) ==
  onValue(IF o.filter = "passThroughFilter" THEN st
          ELSE [st EXCEPT !.calls = Append(@, Event("filter", o, newValue))],
          o, ApplyFilter(o.filter, o.sub, newValue))

\* The loop of BehaviorSubject.onNext over the observers it copied when the
\* call began, in subscription order; a throwing callback ends it.
RECURSIVE NotifyFrom(_, _, _, _)
NotifyFrom(st, observers, i, value) ==
  IF i > Len(observers) \/ st.error # "none" THEN st
  ELSE NotifyFrom(observe(st, observers[i], value), observers, i + 1, value)

\* BehaviorSubject.onNext(value) on stream sid: store the value, then notify.
onNext(st, sid, value) ==
  NotifyFrom([st EXCEPT !.streams[sid].value = value],
             st.streams[sid].observers, 1, value)

\* A loop that empties the subscriber's handle list when an entry fails.
RECURSIVE forEachConfigForgetsOnError(_, _, _, _)
forEachConfigForgetsOnError(st, subscriber, cfgs, i) ==
  IF i > Len(cfgs) THEN st
  ELSE
    LET k == SubscriberKey(subscriber)
        target == OwnProperty(st.observables, ToPropertyKey(cfgs[i].observableKey))
    IN
    IF k \notin DOMAIN st.subscriptions
    THEN [st EXCEPT !.error = "TypeError"]
    ELSE IF target.kind # "stream"
    THEN [st EXCEPT !.error = "TypeError", !.subscriptions[k] = <<>>]
    ELSE
      LET o == [id |-> st.next, sub |-> subscriber, entry |-> cfgs[i],
                filter |-> ChooseFilter(cfgs[i].filter)]
          handle == [stream |-> target.id, observer |-> o]
          s1 == [st EXCEPT !.streams[target.id].observers = Append(@, o),
                           !.next = @ + 1]
          s2 == observe(s1, o, s1.streams[target.id].value)
      IN IF s2.error # "none" THEN s2
         ELSE forEachConfigForgetsOnError(
                IF k \in DOMAIN s2.subscriptions
                THEN [s2 EXCEPT !.subscriptions[k] = Append(@, handle)]
                ELSE s2,
                subscriber, cfgs, i + 1)

\* subscriber.constructor.subscriptions.forEach(config => ...), from entry i:
\*   subscriptions(this)[subscriber].push(observe(observables(this)[key], ...))
\* The list to push to is looked up first (a TypeError when the subscriber has
\* no entry any more). observable.subscribe on a BehaviorSubject attaches the
\* observer, then replays the current value to it, then returns the handle; on
\* anything else the call throws a TypeError. A throw inside the replay leaves
\* the handle unstored; a list that was deleted from the table meanwhile
\* receives the handle without the table seeing it.
RECURSIVE forEachConfig(_, _, _, _)
forEachConfig(st, subscriber, cfgs, i) ==
  IF i > Len(cfgs) THEN st
  ELSE
    LET k == SubscriberKey(subscriber)
        target == OwnProperty(st.observables, ToPropertyKey(cfgs[i].observableKey))
    IN
    IF k \notin DOMAIN st.subscriptions
    THEN [st EXCEPT !.error = "TypeError"]
    ELSE IF target.kind # "stream"
    THEN [st EXCEPT !.error = "TypeError"]
    ELSE
      LET o == [id |-> st.next, sub |-> subscriber, entry |-> cfgs[i],
                filter |-> ChooseFilter(cfgs[i].filter)]
          handle == [stream |-> target.id, observer |-> o]
          s1 == [st EXCEPT !.streams[target.id].observers = Append(@, o),
                           !.next = @ + 1]
          s2 == observe(s1, o, s1.streams[target.id].value)
      IN IF s2.error # "none" THEN s2
         ELSE forEachConfig(
                IF k \in DOMAIN s2.subscriptions
                THEN [s2 EXCEPT !.subscriptions[k] = Append(@, handle)]
                ELSE s2,
                subscriber, cfgs, i + 1)

\* A subscribe that adds to an existing handle list instead of replacing it.
subscribeAdditive(st, subscriber, cfgs) ==
  LET k == SubscriberKey(subscriber)
      s2 == IF HasEntry(st.subscriptions, subscriber)
            THEN st
            ELSE [st EXCEPT
                    !.subscriptions = [x \in DOMAIN st.subscriptions \cup {k} |->
                                         IF x = k THEN <<>> ELSE st.subscriptions[x]]]
  IN forEachConfig(s2, subscriber, cfgs, 1)

subscribe(st, subscriber, cfgs) ==
  LET k == SubscriberKey(subscriber)
      s1 == IF HasEntry(st.subscriptions, subscriber)
            THEN unsubscribe(st, subscriber)
            ELSE st
      s2 == [s1 EXCEPT
               !.subscriptions = [x \in DOMAIN s1.subscriptions \cup {k} |->
                                    IF x = k THEN <<>> ELSE s1.subscriptions[x]]]
  IN forEachConfig(s2, subscriber, cfgs, 1)

\* A publish that emits the value into every stream of the store.
RECURSIVE NotifyStreamsFrom(_, _, _)
NotifyStreamsFrom(st, i, value) ==
  IF i > Len(st.streams) \/ st.error # "none" THEN st
  ELSE NotifyStreamsFrom(NotifyFrom(st, st.streams[i].observers, 1, value),
                         i + 1, value)

publishNotifiesEveryStream(st, key, nextValue) ==
  LET target == get(st.observables, key) IN
  IF target.kind # "stream"
  THEN [st EXCEPT !.error = "TypeError"]
  ELSE NotifyStreamsFrom([st EXCEPT !.streams[target.id].value = nextValue],
                         1, nextValue)

\* A publish that returns quietly when the key path holds no stream.
publishIgnoresMissing(st, key, nextValue) ==
  LET target == get(st.observables, key) IN
  IF target.kind # "stream"
  THEN st
  ELSE onNext(st, target.id, nextValue)

\* get(observables(this), key).onNext(nextValue)
publish(st, key, nextValue) ==
  LET target == get(st.observables, key) IN
  IF target.kind # "stream"
  THEN [st EXCEPT !.error = "TypeError"]    \* no onNext on undefined / {}
  ELSE onNext(st, target.id, nextValue)

\* ------------------------------------------------- the state machine
Current ==
  [observables |-> observables,
   streams |-> streams,
   subscriptions |-> subscriptions,
   next |-> nextHandle,
   calls |-> <<>>,
   error |-> "none"]

Commit(st) ==
  /\ observables' = st.observables
  /\ streams' = st.streams
  /\ subscriptions' = st.subscriptions
  /\ nextHandle' = st.next
  /\ calls' = st.calls

Call(op, key, sub, val, cfgs, error, result) ==
  [op |-> op, key |-> key, sub |-> sub, val |-> val, cfgs |-> cfgs,
   error |-> error, result |-> result]

Init ==
  /\ observables = constructor.observables
  /\ streams = constructor.streams
  /\ subscriptions = constructor.subscriptions
  /\ nextHandle = constructor.next
  /\ calls = constructor.calls
  /\ initialized = {}
  /\ last = Call("new", <<>>, "", 0, <<>>, "none", FALSE)

Initialize(key, defaultValue) ==
  LET st == initialize(Current, key, defaultValue) IN
  /\ Commit(st)
  /\ initialized' = IF st.error = "none" THEN initialized \cup {key} ELSE initialized
  /\ last' = Call("initialize", key, "", defaultValue, <<>>, st.error, FALSE)

IsInitialized(key) ==
  /\ Commit(Current)
  /\ last' = Call("isInitialized", key, "", 0, <<>>, "none", isInitialized(Current, key))
  /\ UNCHANGED initialized

Subscribe(subscriber, cfgs) ==
  LET st == subscribe(Current, subscriber, cfgs) IN
  /\ nextHandle + Len(cfgs) - 1 <= MaxHandles
  /\ Commit(st)
  /\ last' = Call("subscribe", <<>>, subscriber, 0, cfgs, st.error, FALSE)
  /\ UNCHANGED initialized

Unsubscribe(subscriber) ==
  LET st == unsubscribe(Current, subscriber) IN
  /\ Commit(st)
  /\ last' = Call("unsubscribe", <<>>, subscriber, 0, <<>>, st.error, FALSE)
  /\ UNCHANGED initialized

Publish(key, nextValue) ==
  LET st == publish(Current, key, nextValue) IN
  /\ Commit(st)
  /\ last' = Call("publish", key, "", nextValue, <<>>, st.error, FALSE)
  /\ UNCHANGED initialized

Next ==
  \/ \E key \in KeyPaths, v \in Values : Initialize(key, v)
  \/ \E key \in KeyPaths : IsInitialized(key)
  \/ \E s \in Subscribers, cfgs \in ConfigLists : Subscribe(s, cfgs)
  \/ \E s \in Subscribers : Unsubscribe(s)
  \/ \E key \in KeyPaths, v \in Values : Publish(key, v)

Spec == Init /\ [][Next]_vars

\* The same store driven by subscribers whose onValue procedures call back
\* into it or throw.
NextReentrant ==
  \/ \E key \in ReentrantKeyPaths, v \in Values : Initialize(key, v)
  \/ \E key \in ReentrantKeyPaths : IsInitialized(key)
  \/ \E s \in Subscribers, cfgs \in ReentrantConfigLists : Subscribe(s, cfgs)
  \/ \E s \in Subscribers : Unsubscribe(s)
  \/ \E key \in ReentrantKeyPaths, v \in Values : Publish(key, v)

SpecReentrant == Init /\ [][NextReentrant]_vars

\* ------------------------------------------------- vocabulary of the properties
\* The registrations attached to some stream of strs.
ActiveObservers(strs) ==
  UNION { { strs[i].observers[j] : j \in 1..Len(strs[i].observers) } :
          i \in DOMAIN strs }

ActiveFor(strs, subscriber) ==
  { o \in ActiveObservers(strs) : o.sub = subscriber }

OnValueEvents(trace) == SelectSeq(trace, LAMBDA e : e.kind = "onValue")

EventsFor(trace, subscriber) ==
  { i \in 1..Len(trace) :
      trace[i].kind \in {"filter", "onValue"} /\ trace[i].sub = subscriber }

\* What a config entry's onValue is due for a raw value.
Delivered(entry, raw) ==
  IF entry.filter = "double" THEN raw + raw ELSE raw

\* ------------------------------------------------- C1
\* C1: a successful publish(K, v) invokes onValue of every registration
\* attached to K's stream at the time of the call exactly once, with v (or
\* the filter's result), in the order the registrations were subscribed
\* (handles are numbered in that order), and invokes no other registration.
C1_PublishReachesEveryRegistrationInOrder ==
  [][ (last'.op = "publish" /\ last'.error = "none") =>
        LET target == get(observables, last'.key)
            before == streams[target.id].observers
            ev == OnValueEvents(calls')
        IN /\ target.kind = "stream"
           /\ Len(ev) = Len(before)
           /\ \A i \in 1..Len(ev) :
                /\ ev[i].id = before[i].id
                /\ ev[i].sub = before[i].sub
                /\ ev[i].arg = Delivered(before[i].entry, last'.val)
           /\ \A i, j \in 1..Len(ev) : i < j => ev[i].id < ev[j].id
           /\ \A i \in 1..Len(calls') :
                \E j \in 1..Len(before) : before[j].id = calls'[i].id
    ]_vars

\* A publish that reached two registrations of one stream, one with a filter.
C1_Witness ==
  /\ last.op = "publish"
  /\ last.error = "none"
  /\ Len(OnValueEvents(calls)) = 2
  /\ \E i \in 1..Len(calls) : calls[i].kind = "filter"

\* ------------------------------------------------- C2
\* C2: subscribe(B) leaves the registrations of every other subscriber A
\* attached, so that both A and B are reached by a following publish.
C2_SubscribeKeepsOtherSubscribers ==
  [][ last'.op = "subscribe" =>
        \A o \in ActiveObservers(streams) :
          o.sub # last'.sub => o \in ActiveObservers(streams')
    ]_vars

\* ------------------------------------------------- C3
\* C3: once unsubscribe(S) has been called, S has no entry in the
\* subscription table and no registration of S is attached; and as long as S
\* does not subscribe again, no call attaches one or invokes a filter or
\* onValue on behalf of S.
C3_UnsubscribeStopsDispatch ==
  [][ /\ last'.op = "unsubscribe" =>
           /\ ~HasEntry(subscriptions', last'.sub)
           /\ ActiveFor(streams', last'.sub) = {}
      /\ \A s \in Subscribers :
           (ActiveFor(streams, s) = {} /\ ~(last'.op = "subscribe" /\ last'.sub = s)) =>
             /\ ActiveFor(streams', s) = {}
             /\ EventsFor(calls', s) = {}
    ]_vars

\* unsubscribe(S) has just disposed a registration made by subscribe(S).
C3_Witness ==
  /\ last.op = "unsubscribe"
  /\ last.error = "none"
  /\ \E i \in 1..Len(calls) : calls[i].kind = "dispose" /\ calls[i].sub = last.sub
  /\ ActiveObservers(streams) = {}

\* ------------------------------------------------- C4
HandleIds(list) == { list[i].observer.id : i \in 1..Len(list) }

\* C4: subscribe(S) for an S that has an entry disposes every handle of that
\* entry before it creates a registration; when it returns, none of the old
\* handles is attached, and the registrations attached for S and the handles
\* in S's entry are those this call created.
C4_ResubscribeReplaces ==
  [][ (last'.op = "subscribe" /\ HasEntry(subscriptions, last'.sub)) =>
        LET old == HandleIds(subscriptions[SubscriberKey(last'.sub)])
            new == HandleIds(subscriptions'[SubscriberKey(last'.sub)])
        IN /\ \A o \in ActiveObservers(streams') : o.id \notin old
           /\ \A o \in ActiveFor(streams', last'.sub) : o.id >= nextHandle
           /\ \A id \in new : id >= nextHandle
           /\ \A id \in old :
                \E i \in 1..Len(calls') :
                  calls'[i].kind = "dispose" /\ calls'[i].id = id
           /\ \A i, j \in 1..Len(calls') :
                (calls'[i].kind = "dispose" /\ calls'[j].kind # "dispose") => i < j
    ]_vars

\* A second subscribe(S) disposed S's earlier registration and made a new one.
C4_Witness ==
  /\ last.op = "subscribe"
  /\ last.error = "none"
  /\ \E i \in 1..Len(calls) : calls[i].kind = "dispose" /\ calls[i].sub = last.sub
  /\ ActiveFor(streams, last.sub) # {}

\* ------------------------------------------------- C5
\* C5: initialize(K, v) succeeds for every K not initialized before, and
\* isInitialized(K) is true afterwards; initialize on a K initialized before
\* fails and changes neither table, no stream, and creates no stream.
C5_InitializeOnceThenDuplicateFails ==
  [][ last'.op = "initialize" =>
        IF last'.key \notin initialized
        THEN /\ last'.error = "none"
             /\ has(observables', last'.key)
        ELSE /\ last'.error # "none"
             /\ UNCHANGED <<observables, streams, subscriptions, nextHandle>>
    ]_vars

\* ------------------------------------------------- C6
\* C6: a subscriber has an entry in the subscription table exactly when a
\* registration of its own is attached, and no entry is an empty list.
C6_EntryIffActiveHandle ==
  /\ \A s \in Subscribers :
       HasEntry(subscriptions, s) <=> ActiveFor(streams, s) # {}
  /\ \A k \in DOMAIN subscriptions : subscriptions[k] # <<>>

\* ------------------------------------------------- C7
\* The raw value a dispatch of the last call carried: the published value, or
\* at subscribe time the current value of the stream the observer joined.
RawValue(o) ==
  IF last.op = "publish" THEN last.val
  ELSE LET i == CHOOSE i \in DOMAIN streams :
                  \E j \in 1..Len(streams[i].observers) : streams[i].observers[j] = o
       IN streams[i].value

FilterCalls(o) ==
  { i \in 1..Len(calls) : calls[i].kind = "filter" /\ calls[i].id = o.id }

\* C7: every onValue(subscriber, x) gets x = raw when the entry has no filter,
\* and then no filter runs; with a filter, the filter runs once, on
\* (subscriber, raw), directly before onValue, and x is its result: raw for
\* the identity filter, 2 * raw for v -> v*2.
C7_OnValueGetsFilterResult ==
  \A i \in 1..Len(calls) :
    \/ calls[i].kind = "dispose"
    \/ \E o \in ActiveObservers(streams) :
         /\ o.id = calls[i].id
         /\ o.sub = calls[i].sub
         /\ IF calls[i].kind = "filter"
            THEN /\ o.entry.filter # "undefined"
                 /\ calls[i].arg = RawValue(o)
                 /\ i < Len(calls)
                 /\ calls[i + 1].kind = "onValue"
                 /\ calls[i + 1].id = o.id
            ELSE IF o.entry.filter = "undefined"
                 THEN /\ calls[i].arg = RawValue(o)
                      /\ FilterCalls(o) = {}
                 ELSE /\ FilterCalls(o) = {i - 1}
                      /\ o.entry.filter = "identity" => calls[i].arg = RawValue(o)
                      /\ o.entry.filter = "double" => calls[i].arg = 2 * RawValue(o)

\* publish(K, 3) reached a registration with filter v -> v*2: onValue got 6.
C7_Witness ==
  /\ last.op = "publish"
  /\ last.val = 3
  /\ \E i \in 1..Len(calls) :
       /\ calls[i].kind = "onValue"
       /\ calls[i].arg = 6
       /\ i > 1
       /\ calls[i - 1].kind = "filter"
       /\ calls[i - 1].arg = 3

\* ------------------------------------------------- C8
\* C8: after subscribe(S) with a config list all of whose observableKeys were
\* initialized, single-segment or not, every entry has a registration of S
\* attached to the stream at its key path K, the one publish(K, v) emits into.
C8_SubscribeAttachesToPublishedStream ==
  (/\ last.op = "subscribe"
   /\ \A n \in 1..Len(last.cfgs) : last.cfgs[n].observableKey \in initialized) =>
    \A n \in 1..Len(last.cfgs) :
      LET K == last.cfgs[n].observableKey
          target == get(observables, K)
      IN   /\ target.kind = "stream"
           /\ \E j \in 1..Len(streams[target.id].observers) :
                LET o == streams[target.id].observers[j]
                IN o.sub = last.sub /\ o.entry = last.cfgs[n]

\* ------------------------------------------------- C9
\* C9: isInitialized(K) is true exactly when initialize(K, _) has succeeded
\* before, for every key path K.
C9_IsInitializedIffInitialized ==
  /\ \A K \in KeyPaths : isInitialized(Current, K) <=> K \in initialized
  /\ last.op = "isInitialized" => (last.result <=> last.key \in initialized)

\* ------------------------------------------------- C10
\* C10: publish(K, v) on a K that holds no stream fails with an error,
\* invokes no filter or onValue, and leaves both tables and every stream
\* (its current value and observers) as they were.
C10_PublishToMissingFails ==
  [][ (last'.op = "publish" /\ get(observables, last'.key).kind # "stream") =>
        /\ last'.error # "none"
        /\ calls' = <<>>
        /\ UNCHANGED <<observables, streams, subscriptions, nextHandle>>
    ]_vars

\* publish on the prefix 'a' of the initialized ['a','b'] failed, while a
\* registration is attached to another stream.
C10_Witness ==
  /\ last.op = "publish"
  /\ last.error = "TypeError"
  /\ observables[last.key].kind = "object"
  /\ ActiveObservers(streams) # {}

\* ------------------------------------------------- C11
\* C11: unsubscribe(S) for an S without an entry in the subscription table
\* always ends the same way, with an error, and leaves both tables, every
\* stream and every registration as they were; nothing is invoked.
C11_UnsubscribeWithoutEntryChangesNothing ==
  [][ (last'.op = "unsubscribe" /\ ~HasEntry(subscriptions, last'.sub)) =>
        /\ last'.error = "TypeError"
        /\ calls' = <<>>
        /\ UNCHANGED <<observables, streams, subscriptions, nextHandle>>
    ]_vars

\* An unsubscribe failed for want of an entry after handles had been made
\* and disposed (as a second unsubscribe in a row does).
C11_Witness ==
  /\ last.op = "unsubscribe"
  /\ last.error = "TypeError"
  /\ nextHandle > 1
  /\ DOMAIN subscriptions = {}
  /\ ActiveObservers(streams) = {}

\* ------------------------------------------------- C12
\* The registrations a subscribe step attached.
NewObservers == { o \in ActiveObservers(streams') : o.id >= nextHandle }

StreamOf(strs, o) ==
  CHOOSE i \in DOMAIN strs :
    \E j \in 1..Len(strs[i].observers) : strs[i].observers[j] = o

\* C12: a stream's current value is the default it was initialized with until
\* a publish, and then the value published last; subscribe replays exactly
\* that current value, once, to each registration it attaches (so [1, 2]
\* follow at most one replayed value, and a later subscriber is replayed the
\* published value).
C12_ReplayLatest ==
  [][ /\ (last'.op = "initialize" /\ last'.error = "none") =>
           streams'[Len(streams')].value = last'.val
      /\ (last'.op = "publish" /\ last'.error = "none") =>
           streams'[get(observables, last'.key).id].value = last'.val
      /\ \A i \in DOMAIN streams :
           streams'[i].value # streams[i].value =>
             /\ last'.op = "publish"
             /\ get(observables, last'.key) = StreamRef(i)
      /\ last'.op = "subscribe" =>
           /\ \A o \in NewObservers :
                \E i \in 1..Len(calls') :
                  /\ calls'[i].kind = "onValue"
                  /\ calls'[i].id = o.id
                  /\ calls'[i].arg = Delivered(o.entry, streams[StreamOf(streams', o)].value)
                  /\ \A j \in 1..Len(calls') :
                       (calls'[j].kind = "onValue" /\ calls'[j].id = o.id) => j = i
           /\ \A i \in 1..Len(calls') :
                calls'[i].kind = "onValue" =>
                  \E o \in NewObservers : o.id = calls'[i].id
    ]_vars

\* A subscribe to a stream whose current value is 3 was replayed 3, once.
C12_Witness ==
  /\ last.op = "subscribe"
  /\ last.error = "none"
  /\ Len(calls) = 1
  /\ calls[1].kind = "onValue"
  /\ calls[1].arg = 3
  /\ \E o \in ActiveObservers(streams) :
       o.id = calls[1].id /\ streams[StreamOf(streams, o)].value = 3

\* ------------------------------------------------- C13
\* C13: a registered key path stays registered with the same stream: no step
\* removes or replaces a stream of the registration table (also not
\* initialize of a longer or shorter key path), and the factory has been
\* called once for every key path initialize succeeded for, each of which
\* holds a stream of its own.
C13_RegistrationTableOnlyGrows ==
  [][ /\ \A K \in KeyPaths :
           observables[K].kind = "stream" => observables'[K] = observables[K]
      /\ Len(streams') >= Len(streams)
      /\ Len(streams') # Len(streams) =>
           /\ last'.op = "initialize"
           /\ last'.error = "none"
           /\ Len(streams') = Len(streams) + 1
      /\ Len(streams') = Cardinality(initialized')
      /\ \A K \in initialized' : observables'[K].kind = "stream"
      /\ \A K1, K2 \in initialized' :
           K1 # K2 => observables'[K1].id # observables'[K2].id
    ]_vars

\* ['a','b'] was initialized after its prefix 'a'; both hold their stream.
C13_Witness ==
  /\ last.op = "initialize"
  /\ last.error = "none"
  /\ last.key = <<"a", "b">>
  /\ observables[<<"a">>].kind = "stream"
  /\ observables[<<"a", "b">>].kind = "stream"
  /\ observables[<<"a">>].id < observables[<<"a", "b">>].id

\* ------------------------------------------------- C14
\* C14: every registration attached to a stream has its handle in the handle
\* list of some entry of the subscription table, so unsubscribe can reach it.
C14_NoOrphanedRegistrations ==
  \A o \in ActiveObservers(streams) :
    \E k \in DOMAIN subscriptions :
      \E n \in 1..Len(subscriptions[k]) : subscriptions[k][n].observer.id = o.id

\* ------------------------------------------------- C15
\* C15: after a successful subscribe(S), whatever came before, S's entry holds
\* one handle per config entry, in config order, each attached, and these are
\* all the registrations attached for S; and no publish invokes the onValue
\* of one registration twice.
C15_OneRegistrationPerConfigEntry ==
  /\ (last.op = "subscribe" /\ last.error = "none") =>
       LET list == subscriptions[SubscriberKey(last.sub)] IN
       /\ Len(list) = Len(last.cfgs)
       /\ Cardinality(ActiveFor(streams, last.sub)) = Len(last.cfgs)
       /\ \A n \in 1..Len(list) :
            /\ list[n].observer.entry = last.cfgs[n]
            /\ list[n].observer.sub = last.sub
            /\ list[n].observer \in ActiveObservers(streams)
       /\ \A n, m \in 1..Len(list) :
            n < m => list[n].observer.id < list[m].observer.id
  /\ last.op = "publish" =>
       \A i, j \in 1..Len(calls) :
         (calls[i].kind = "onValue" /\ calls[j].kind = "onValue"
            /\ calls[i].id = calls[j].id) => i = j

\* A repeated subscribe(S) with a one-entry list: one registration of S.
C15_Witness ==
  /\ last.op = "subscribe"
  /\ last.error = "none"
  /\ Len(last.cfgs) = 1
  /\ \E i \in 1..Len(calls) : calls[i].kind = "dispose" /\ calls[i].sub = last.sub
  /\ Cardinality(ActiveFor(streams, last.sub)) = 1
  /\ Len(subscriptions[SubscriberKey(last.sub)]) = 1

\* ------------------------------------------------- C16
\* C16: within one publish, once an onValue procedure has called
\* unsubscribe(S), no onValue of S is invoked any more.
C16_NoDispatchAfterReentrantUnsubscribe ==
  last.op = "publish" =>
    \A i, j \in 1..Len(calls) :
      (i < j /\ calls[i].kind = "unsubscribe" /\ calls[j].kind = "onValue")
        => calls[j].sub # calls[i].sub

\* ------------------------------------------------- C17
\* C17: after a publish(K, v) that returned, also one during which an onValue
\* procedure published 1 to K, every registration still attached to K's
\* stream has received v before any 1 of a nested publish, and the last value
\* it received is the stream's current value.
C17_ReentrantPublishKeepsOrder ==
  (last.op = "publish" /\ last.error = "none") =>
    LET sid == get(observables, last.key).id
        ev == OnValueEvents(calls)
        nested == \E i \in 1..Len(calls) : calls[i].kind = "publish"
    IN \A o \in ActiveObservers(streams) :
         LET mine == SelectSeq(ev, LAMBDA e : e.id = o.id) IN
         /\ mine # <<>> => mine[Len(mine)].arg = streams[sid].value
         /\ nested =>
              \A i, j \in 1..Len(mine) :
                (i < j /\ mine[j].arg = last.val) => mine[i].arg = last.val

\* ------------------------------------------------- C18
\* C18: unsubscribe(A) detaches the registrations of A and of nobody else,
\* and leaves the registration table alone.
C18_UnsubscribeTouchesOnlyItsOwn ==
  [][ last'.op = "unsubscribe" =>
        /\ \A o \in ActiveObservers(streams) :
             o.sub # last'.sub => o \in ActiveObservers(streams')
        /\ observables' = observables
    ]_vars

\* ------------------------------------------------- C19
\* C19, as claimed: a subscribe(S) that raises an error leaves the
\* subscription table and the attached registrations as they were.
C19_FailedSubscribeChangesNothing ==
  [][ (last'.op = "subscribe" /\ last'.error # "none") =>
        UNCHANGED <<subscriptions, streams>>
    ]_vars

\* C19, amended: a subscribe(S) that raises an error at entry n of the config
\* list (an entry that does not name a stream by a single segment) is not
\* undone: the handles of S's previous entry are all disposed, S's entry holds
\* the handles of the entries before n, in order and attached, nothing else
\* is attached or detached, and the registration table is unchanged.
C19_FailedSubscribeKeepsEarlierEntries ==
  [][ (last'.op = "subscribe" /\ last'.error # "none") =>
        LET k == SubscriberKey(last'.sub)
            cfgs == last'.cfgs
            list == subscriptions'[k]
            n == Len(list) + 1
            old == IF k \in DOMAIN subscriptions
                   THEN { subscriptions[k][m].observer : m \in 1..Len(subscriptions[k]) }
                   ELSE {}
            kept == { list[m].observer : m \in 1..Len(list) }
        IN /\ k \in DOMAIN subscriptions'
           /\ n <= Len(cfgs)
           /\ ~(/\ Len(cfgs[n].observableKey) = 1
                 /\ observables[cfgs[n].observableKey].kind = "stream")
           /\ \A m \in 1..Len(list) :
                /\ list[m].observer.entry = cfgs[m]
                /\ list[m].observer.sub = last'.sub
                /\ list[m].observer.id >= nextHandle
                /\ list[m].stream = observables[cfgs[m].observableKey].id
           /\ ActiveObservers(streams') = (ActiveObservers(streams) \ old) \cup kept
           /\ old \cap kept = {}
           /\ observables' = observables
    ]_vars

\* A subscribe(S) failed at its second entry: the first entry's registration
\* stays attached and is the only handle of S's entry.
C19_Witness ==
  /\ last.op = "subscribe"
  /\ last.error = "TypeError"
  /\ Len(last.cfgs) = 2
  /\ Len(subscriptions[SubscriberKey(last.sub)]) = 1
  /\ subscriptions[SubscriberKey(last.sub)][1].observer \in ActiveFor(streams, last.sub)
  /\ Len(calls) = 1
  /\ calls[1].kind = "onValue"
====
